---- MODULE Spec2Model ----
(***************************************************************************)
(* The search popover of gnome-terminal (src/terminal-search-popover.c):   *)
(* the cached compiled search regex of a popover and the process-wide      *)
(* search history store.                                                   *)
(*                                                                         *)
(* Representation.  A C string is a sequence of Unicode code points, each  *)
(* code point named by a one-element string ("a", "+", "\\" for the        *)
(* backslash, "U+00E9" for e-acute, which takes two bytes in UTF-8).  A    *)
(* pointer is a sequence of length 0 (NULL) or 1 (Ptr(v), pointing at v).  *)
(* Every handler runs to completion on the single GTK main thread, so one  *)
(* action is one whole callback.  fx is the ordered list of the externally *)
(* visible effects of the last callback (engine calls, unrefs, property    *)
(* notifications, signal emissions, history insertions); ev names that     *)
(* callback.  The field last_triple of a popover is a history variable:    *)
(* the triple derived by the most recent update_regex call (NULL before    *)
(* the first call).  The field unreleased is a history variable too: the   *)
(* number of matchers the popover got from the engine and has not yet      *)
(* unref'd.  The field finalized tells that the popover was destroyed.     *)
(***************************************************************************)
EXTENDS Integers, Sequences, FiniteSets, TLC

VARIABLES
  priv,                 \* popover -> TerminalSearchPopoverPrivate + its widgets
  history_store,        \* static GtkListStore *history_store (rows, first = 0)
  recent_files_enabled, \* GtkSettings "gtk-recent-files-enabled"
  ev,                   \* the callback that ran last
  fx,                   \* its effects, in program order
  hist_fresh,           \* history driver: distinct strings drawn so far
  hist_reinserts        \* history driver: re-insertions of a present string

vars == <<priv, history_store, recent_files_enabled, ev, fx, hist_fresh, hist_reinserts>>

(* ------------------------------ pointers ------------------------------ *)

NULL == <<>>
Ptr(v) == <<v>>
Deref(p) == p[1]

(* ------------------------------ constants ----------------------------- *)

HISTORY_MIN_ITEM_LEN == 3
HISTORY_LENGTH == 10

(* ------------------------------- bounds ------------------------------- *)

\* Popovers of the process (one per window); Spec drives the first one,
\* SpecShared both.
PopoverIds == {"p1", "p2"}
SpecPopovers == {"p1"}

BS == "\\"
EACUTE == "U+00E9"

\* Search texts typed in Spec: empty; "a+" (a regex and, escaped, a
\* literal); "(" (no valid regex, a valid literal); "\b\b" (four code
\* points, as a regex equal to the whole-word wrapping of the empty text);
\* "abcd" (its own escaping); "a<e-acute>b" (3 code points, 4 bytes).
Texts ==
  { <<>>,
    <<"a", "+">>,
    <<"(">>,
    <<BS, "b", BS, "b">>,
    <<"a", "b", "c", "d">>,
    <<"a", EACUTE, "b">> }

\* Search texts typed in SpecShared.
SharedTexts == { <<"a", "b", "c", "d">>, <<BS, "b", BS, "b">>, <<"(">> }

\* The history driver (SpecHistory) draws at most MaxFresh distinct
\* recordable strings and re-inserts a present string at most MaxReinserts
\* times.
MaxFresh == 12
MaxReinserts == 1

Alphabet == <<"a", "b", "c", "d">>

\* The n-th distinct recordable string (n in 1..16), four code points long.
Fresh(n) == <<"s", Alphabet[((n - 1) \div 4) + 1], Alphabet[((n - 1) % 4) + 1], "t">>

\* Strings of at most three code points (the last one takes four bytes).
ShortTexts == { <<>>, <<"a", "b">>, <<"a", "b", "c">>, <<"a", EACUTE, "b">> }

(* --------------------------- library functions ------------------------ *)

\* g_regex_escape_string: the characters glib escapes with a backslash.
RegexSpecial == {BS, "|", "(", ")", "[", "]", "{", "}", "^", "$", "*", "+", "?", "."}

RECURSIVE g_regex_escape_string(_)
g_regex_escape_string(s) ==
  IF s = <<>> THEN <<>>
  ELSE (IF Head(s) \in RegexSpecial THEN <<BS, Head(s)>> ELSE <<Head(s)>>)
         \o g_regex_escape_string(Tail(s))

\* The regex engine's syntax check over the modelled alphabet: a backslash
\* needs a following character; "(" is never closed; "+" needs something to
\* repeat (prev: "none" | "atom" | "quant").
RECURSIVE RegexValidFrom(_, _)
RegexValidFrom(p, prev) ==
  IF p = <<>> THEN TRUE
  ELSE IF Head(p) = BS
    THEN /\ Len(p) >= 2
         /\ RegexValidFrom(SubSeq(p, 3, Len(p)), IF p[2] = "b" THEN "none" ELSE "atom")
  ELSE IF Head(p) \in {"(", ")", "[", "{", "*", "?"}
    THEN FALSE
  ELSE IF Head(p) = "+"
    THEN /\ prev # "none"
         /\ RegexValidFrom(Tail(p), IF prev = "atom" THEN "quant" ELSE "none")
  ELSE RegexValidFrom(Tail(p), "atom")

\* vte_regex_new / g_regex_new: a new matcher, or NULL with the error set.
regex_new(pattern, caseless, multiline) ==
  IF RegexValidFrom(pattern, "none")
  THEN Ptr([pattern |-> pattern, caseless |-> caseless, multiline |-> multiline])
  ELSE NULL

\* g_utf8_strlen (text, -1): the number of code points.
g_utf8_strlen(text) == Len(text)

\* strlen: the number of bytes of the UTF-8 encoding.
RECURSIVE strlen(_)
strlen(text) ==
  IF text = <<>> THEN 0
  ELSE (IF Head(text) = EACUTE THEN 2 ELSE 1) + strlen(Tail(text))

(* ------------------------------- history ------------------------------ *)

\* Faulty variant of history_enabled: makes a new store at every call.
history_enabled_always_new(store, enabled) ==
  IF ~enabled THEN [store |-> store, ret |-> FALSE]
  ELSE [store |-> Ptr(<<>>), ret |-> TRUE]

\* history_enabled: the store after the call and the value returned.
history_enabled(store, enabled) ==
  IF ~enabled THEN [store |-> store, ret |-> FALSE]
  ELSE [store |-> IF store = NULL THEN Ptr(<<>>) ELSE store, ret |-> TRUE]

\* Index of the first row equal to text, 0 when there is none.
RECURSIVE FirstIndexFrom(_, _, _)
FirstIndexFrom(rows, text, i) ==
  IF i > Len(rows) THEN 0
  ELSE IF rows[i] = text THEN i
  ELSE FirstIndexFrom(rows, text, i + 1)

RemoveAt(rows, i) == SubSeq(rows, 1, i - 1) \o SubSeq(rows, i + 1, Len(rows))

\* Faulty variant of history_remove_item: looks at the first row only.
history_remove_item_first_row_only(rows, text) ==
  IF rows # <<>> /\ rows[1] = text
  THEN [rows |-> RemoveAt(rows, 1), ret |-> TRUE]
  ELSE [rows |-> rows, ret |-> FALSE]

\* history_remove_item: removes the first row equal to text.
history_remove_item(rows, text) ==
  LET i == FirstIndexFrom(rows, text, 1)
  IN IF i = 0 THEN [rows |-> rows, ret |-> FALSE]
     ELSE [rows |-> RemoveAt(rows, i), ret |-> TRUE]

\* Faulty variant of history_clamp: keeps the last rows, not the first.
history_clamp_keeps_tail(rows, max) ==
  LET path == max - 1
  IN IF path + 1 <= Len(rows) THEN SubSeq(rows, Len(rows) - path + 1, Len(rows)) ELSE rows

\* Faulty variant of history_clamp: removes nothing.
history_clamp_never(rows, max) == rows

\* history_clamp (max): gets the row at tree path max - 1 (0-based), that is
\* the max-th row, and removes it and every row after it.
history_clamp(rows, max) ==
  LET path == max - 1
  IN IF path + 1 <= Len(rows) THEN SubSeq(rows, 1, path) ELSE rows

\* Faulty variant of TooShort: measures the text in bytes.
TooShort_in_bytes(text) == strlen(text) <= HISTORY_MIN_ITEM_LEN

\* The text test of history_insert_item: too short to be recorded.
TooShort(text) == g_utf8_strlen(text) <= HISTORY_MIN_ITEM_LEN

\* Faulty variant of history_insert_item: does not look at what
\* history_enabled () returns.
history_insert_item_ignores_setting(store, enabled, text) ==
  LET he == history_enabled(store, TRUE)
  IN IF text = NULL THEN he.store
     ELSE IF TooShort(Deref(text)) THEN he.store
     ELSE LET rm == history_remove_item(Deref(he.store), Deref(text))
              rows == IF ~rm.ret THEN history_clamp(rm.rows, HISTORY_LENGTH - 1)
                      ELSE rm.rows
          IN Ptr(<<Deref(text)>> \o rows)

\* history_insert_item (text): text is a pointer; the store after the call.
history_insert_item(store, enabled, text) ==
  LET he == history_enabled(store, enabled)
  IN IF ~he.ret \/ text = NULL THEN he.store
     ELSE IF TooShort(Deref(text)) THEN he.store
     ELSE LET rm == history_remove_item(Deref(he.store), Deref(text))
              rows == IF ~rm.ret THEN history_clamp(rm.rows, HISTORY_LENGTH - 1)
                      ELSE rm.rows
          IN Ptr(<<Deref(text)>> \o rows)

(* ------------------------------- popover ------------------------------ *)

\* Faulty variant of update_sensitivity: forgets the next button.
update_sensitivity_prev_only(pv) ==
  [pv EXCEPT !.search_prev_button = pv.regex # NULL]

\* update_sensitivity: both navigation buttons follow priv->regex.
update_sensitivity(pv) ==
  LET can_search == pv.regex # NULL
  IN [pv EXCEPT !.search_prev_button = can_search,
                !.search_next_button = can_search]

\* Faulty variant of Derive: the text is not escaped in literal mode.
Derive_no_escape(pv) ==
  [pattern   |-> IF pv.entire_word_checkbutton
                 THEN <<BS, "b">> \o pv.search_entry \o <<BS, "b">>
                 ELSE pv.search_entry,
   caseless  |-> ~pv.match_case_checkbutton,
   multiline |-> pv.regex_checkbutton]

\* The pattern and flags update_regex derives from the widgets.
Derive(pv) ==
  LET search_text == pv.search_entry
      base == IF pv.regex_checkbutton THEN search_text
              ELSE g_regex_escape_string(search_text)
  IN [pattern   |-> IF pv.entire_word_checkbutton
                    THEN <<BS, "b">> \o base \o <<BS, "b">> ELSE base,
      caseless  |-> ~pv.match_case_checkbutton,
      multiline |-> pv.regex_checkbutton]

\* Faulty variant of CacheHit: compares the flags only.
CacheHit_flags_only(pv, d) ==
  /\ pv.regex_caseless = d.caseless
  /\ pv.regex_multiline = d.multiline

\* The early-return test of update_regex against the cached fields.
CacheHit(pv, d) ==
  /\ pv.regex_caseless = d.caseless
  /\ pv.regex_multiline = d.multiline
  /\ pv.regex_pattern = Ptr(d.pattern)

\* Faulty variant of ShouldCompile: compiles the empty text too.
ShouldCompile_always(pv) == TRUE

\* Whether update_regex calls the engine: search_text[0] != '\0'.
ShouldCompile(pv) == pv.search_entry # <<>>

\* Faulty variant of StoreCache: keeps the previous matcher pointer when
\* the engine reports an error.
StoreCache_keep_on_error(pv, d, r) ==
  [pv EXCEPT !.regex = IF r # NULL THEN r ELSE pv.regex,
             !.regex_pattern = IF r # NULL THEN Ptr(d.pattern) ELSE NULL]

\* The cached fields update_regex stores once the engine has answered: the
\* pattern is transferred only on success; the two flags are not written.
StoreCache(pv, d, r) ==
  [pv EXCEPT !.regex = r,
             !.regex_pattern = IF r # NULL THEN Ptr(d.pattern) ELSE NULL]

\* Faulty variant of update_regex: notifies only when a pattern appears or
\* disappears, not when one matcher replaces another.
update_regex_quiet_replace(pv) ==
  LET d == Derive(pv)
      seen == [pv EXCEPT !.last_triple = Ptr(d)]
  IN IF CacheHit(pv, d) THEN [pv |-> seen, fx |-> <<>>]
     ELSE LET unref == IF pv.regex # NULL THEN << <<"regex_unref">> >> ELSE <<>>
              r == IF ShouldCompile(pv)
                   THEN regex_new(d.pattern, d.caseless, d.multiline) ELSE NULL
              call == IF ShouldCompile(pv)
                      THEN << <<"regex_new", IF r # NULL THEN "ok" ELSE "error">> >>
                      ELSE <<>>
          IN [pv |-> update_sensitivity(StoreCache(seen, d, r)),
              fx |-> unref \o call \o
                     (IF (r = NULL) # (pv.regex = NULL)
                      THEN << <<"notify", "regex">> >> ELSE <<>>)]

\* update_regex: the popover after the call and the effects of the call.
update_regex(pv) ==
  LET d == Derive(pv)
      seen == [pv EXCEPT !.last_triple = Ptr(d)]
  IN IF CacheHit(pv, d) THEN [pv |-> seen, fx |-> <<>>]
     ELSE LET unref == IF pv.regex # NULL THEN << <<"regex_unref">> >> ELSE <<>>
              r == IF ShouldCompile(pv)
                   THEN regex_new(d.pattern, d.caseless, d.multiline) ELSE NULL
              call == IF ShouldCompile(pv)
                      THEN << <<"regex_new", IF r # NULL THEN "ok" ELSE "error">> >>
                      ELSE <<>>
          IN [pv |-> update_sensitivity(StoreCache(seen, d, r)),
              fx |-> unref \o call \o << <<"notify", "regex">> >>]

\* terminal_search_popover_init: the private data after construction (the
\* entry is empty; the check buttons start as the UI template sets them).
InitPriv(mc, ew, re, wa) ==
  update_sensitivity(
    [search_entry |-> <<>>,
     match_case_checkbutton |-> mc,
     entire_word_checkbutton |-> ew,
     regex_checkbutton |-> re,
     wrap_around_checkbutton |-> wa,
     search_prev_button |-> TRUE,
     search_next_button |-> TRUE,
     search_text_changed |-> FALSE,
     regex_caseless |-> FALSE,
     regex_multiline |-> FALSE,
     regex_pattern |-> NULL,
     regex |-> NULL,
     last_triple |-> NULL,
     completion |-> NULL,
     unreleased |-> 0,
     finalized |-> FALSE])

\* Variant of EntryCompletion with the insertion length as the key length.
EntryCompletion_min_four(have_history) ==
  IF have_history
  THEN Ptr([minimum_key_length |-> HISTORY_MIN_ITEM_LEN + 1])
  ELSE NULL

\* The completion terminal_search_popover_init gives the entry: one on the
\* history store when history_enabled () returned TRUE, none otherwise.
EntryCompletion(have_history) ==
  IF have_history
  THEN Ptr([minimum_key_length |-> HISTORY_MIN_ITEM_LEN])
  ELSE NULL

\* terminal_search_popover_init as a whole: the private data and the
\* completion, given the value history_enabled () returned.
terminal_search_popover_init(mc, ew, re, wa, have_history) ==
  [InitPriv(mc, ew, re, wa) EXCEPT !.completion = EntryCompletion(have_history)]

\* GtkEntryCompletion looks the entry's text up in its model when the text
\* has at least minimum_key_length characters.
CompletionTriggers(pv) ==
  /\ pv.completion # NULL
  /\ g_utf8_strlen(pv.search_entry) >= Deref(pv.completion).minimum_key_length

\* A popover that does not exist (not yet created, or destroyed): its
\* memory holds nothing the program may read.
NoPopover == [InitPriv(FALSE, FALSE, FALSE, FALSE) EXCEPT !.finalized = TRUE]

\* Faulty variant of terminal_search_popover_finalize: no unref.
terminal_search_popover_finalize_leak(pv) ==
  [pv |-> [NoPopover EXCEPT !.unreleased = pv.unreleased], fx |-> <<>>]

\* terminal_search_popover_finalize: the matcher, if any, is unref'd, the
\* cached pattern string freed, and the instance with it.
terminal_search_popover_finalize(pv) ==
  [pv |-> [NoPopover EXCEPT !.unreleased = pv.unreleased],
   fx |-> IF pv.regex # NULL THEN << <<"regex_unref">> >> ELSE <<>>]

\* How often effect e occurs in the effect list f.
Count(f, e) == Cardinality({k \in 1..Len(f) : f[k] = e})

\* The matchers held and not yet unref'd after a callback with effects f.
Account(pv, f) ==
  [pv EXCEPT !.unreleased =
     @ + Count(f, <<"regex_new", "ok">>) - Count(f, <<"regex_unref">>)]

(* ------------------------------- actions ------------------------------ *)

Init ==
  /\ recent_files_enabled \in BOOLEAN
  /\ history_store = history_enabled(NULL, recent_files_enabled).store
  /\ \E mc, ew, re, wa \in BOOLEAN :
       priv = [p \in PopoverIds |->
                 IF p \in SpecPopovers
                 THEN terminal_search_popover_init(mc, ew, re, wa,
                        history_enabled(NULL, recent_files_enabled).ret)
                 ELSE NoPopover]
  /\ ev = <<"terminal_search_popover_init">>
  /\ fx = <<>>
  /\ hist_fresh = 0
  /\ hist_reinserts = 0

\* "search-changed" of the entry: the entry holds t, search_text_changed_cb runs.
SearchTextChanged(p, t) ==
  LET u == update_regex([priv[p] EXCEPT !.search_entry = t])
  IN /\ ~priv[p].finalized
     /\ priv' = [priv EXCEPT ![p] = Account([u.pv EXCEPT !.search_text_changed = TRUE], u.fx)]
     /\ ev' = <<"search_text_changed_cb", p>>
     /\ fx' = u.fx
     /\ UNCHANGED <<history_store, recent_files_enabled, hist_fresh, hist_reinserts>>

\* Faulty variant of SearchParametersChanged: marks the text as changed.
SearchParametersChanged_marks_text(p, button) ==
  LET flipped == [priv[p] EXCEPT ![button] = ~priv[p][button]]
      u == update_regex(flipped)
  IN /\ ~priv[p].finalized
     /\ priv' = [priv EXCEPT ![p] = Account([u.pv EXCEPT !.search_text_changed = TRUE], u.fx)]
     /\ ev' = <<"search_parameters_changed_cb", p, button>>
     /\ fx' = u.fx
     /\ UNCHANGED <<history_store, recent_files_enabled, hist_fresh, hist_reinserts>>

\* "toggled" of the match-case, entire-word or regex check button: the
\* button has flipped, search_parameters_changed_cb runs.
SearchParametersChanged(p, button) ==
  LET flipped == [priv[p] EXCEPT ![button] = ~priv[p][button]]
      u == update_regex(flipped)
  IN /\ ~priv[p].finalized
     /\ priv' = [priv EXCEPT ![p] = Account(u.pv, u.fx)]
     /\ ev' = <<"search_parameters_changed_cb", p, button>>
     /\ fx' = u.fx
     /\ UNCHANGED <<history_store, recent_files_enabled, hist_fresh, hist_reinserts>>

\* "toggled" of the wrap-around check button: wrap_around_toggled_cb.
WrapAroundToggled(p) ==
  /\ ~priv[p].finalized
  /\ priv' = [priv EXCEPT ![p].wrap_around_checkbutton = ~priv[p].wrap_around_checkbutton]
  /\ ev' = <<"wrap_around_toggled_cb", p>>
  /\ fx' = << <<"notify", "wrap-around">> >>
  /\ UNCHANGED <<history_store, recent_files_enabled, hist_fresh, hist_reinserts>>

\* The effect recorded for a call history_insert_item (text).
InsertEffect(text) ==
  IF text = NULL THEN <<"history_insert_item", "NULL">>
  ELSE <<"history_insert_item", "str">> \o Deref(text)

\* Variant of AddToSearchHistory that clears the flag only when the text
\* was recordable and the history enabled.
AddToSearchHistory_keep_on_reject(pv, store, enabled) ==
  IF pv.search_text_changed
  THEN [pv |-> [pv EXCEPT !.search_text_changed =
                            ~(enabled /\ ~TooShort(pv.search_entry))],
        store |-> history_insert_item(store, enabled, Ptr(pv.search_entry)),
        fx |-> << InsertEffect(Ptr(pv.search_entry)) >>]
  ELSE [pv |-> pv, store |-> store, fx |-> <<>>]

\* The history part of perform_search: runs only when the text has changed
\* since the last search; inserts the entry text and clears the flag.
AddToSearchHistory(pv, store, enabled) ==
  IF pv.search_text_changed
  THEN [pv |-> [pv EXCEPT !.search_text_changed = FALSE],
        store |-> history_insert_item(store, enabled, Ptr(pv.search_entry)),
        fx |-> << InsertEffect(Ptr(pv.search_entry)) >>]
  ELSE [pv |-> pv, store |-> store, fx |-> <<>>]

\* Faulty variant of perform_search: emits "search" before it records the
\* text.
perform_search_emit_first(pv, store, enabled, backward) ==
  IF pv.regex = NULL THEN [pv |-> pv, store |-> store, fx |-> <<>>]
  ELSE LET h == AddToSearchHistory(pv, store, enabled)
       IN [pv |-> h.pv, store |-> h.store,
           fx |-> << <<"emit", "search",
                       IF backward THEN "backward" ELSE "forward">> >> \o h.fx]

\* Faulty variant of perform_search: the direction is inverted.
perform_search_wrong_direction(pv, store, enabled, backward) ==
  IF pv.regex = NULL THEN [pv |-> pv, store |-> store, fx |-> <<>>]
  ELSE LET h == AddToSearchHistory(pv, store, enabled)
       IN [pv |-> h.pv, store |-> h.store,
           fx |-> h.fx \o << <<"emit", "search",
                               IF backward THEN "forward" ELSE "backward">> >>]

\* Faulty variant of perform_search: no test of priv->regex.
perform_search_no_guard(pv, store, enabled, backward) ==
  LET h == AddToSearchHistory(pv, store, enabled)
  IN [pv |-> h.pv, store |-> h.store,
      fx |-> h.fx \o << <<"emit", "search",
                          IF backward THEN "backward" ELSE "forward">> >>]

\* perform_search (popover, backward).
perform_search(pv, store, enabled, backward) ==
  IF pv.regex = NULL THEN [pv |-> pv, store |-> store, fx |-> <<>>]
  ELSE LET h == AddToSearchHistory(pv, store, enabled)
       IN [pv |-> h.pv, store |-> h.store,
           fx |-> h.fx \o << <<"emit", "search",
                               IF backward THEN "backward" ELSE "forward">> >>]

PerformSearch(p, backward, handler) ==
  LET s == perform_search(priv[p], history_store, recent_files_enabled, backward)
  IN /\ ~priv[p].finalized
     /\ priv' = [priv EXCEPT ![p] = Account(s.pv, s.fx)]
     /\ history_store' = s.store
     /\ ev' = handler
     /\ fx' = s.fx
     /\ UNCHANGED <<recent_files_enabled, hist_fresh, hist_reinserts>>

\* "clicked" of the previous or next button (a click needs a sensitive button).
SearchButtonClicked(p, button) ==
  /\ priv[p][button]
  /\ PerformSearch(p, button = "search_prev_button",
                   <<"search_button_clicked_cb", p, button>>)

\* "previous-match" key signal of the entry.
PreviousMatch(p) == PerformSearch(p, TRUE, <<"previous_match_cb", p>>)

\* "next-match" key signal of the entry.
NextMatch(p) == PerformSearch(p, FALSE, <<"next_match_cb", p>>)

\* The desktop changes the "gtk-recent-files-enabled" setting.
SetRecentFilesEnabled(b) ==
  /\ recent_files_enabled # b
  /\ recent_files_enabled' = b
  /\ ev' = <<"gtk-recent-files-enabled">>
  /\ fx' = <<>>
  /\ UNCHANGED <<priv, history_store, hist_fresh, hist_reinserts>>

\* The last reference to the popover is dropped (its window closes).
Finalize(p) ==
  LET f == terminal_search_popover_finalize(priv[p])
  IN /\ ~priv[p].finalized
     /\ priv' = [priv EXCEPT ![p] = Account(f.pv, f.fx)]
     /\ ev' = <<"terminal_search_popover_finalize", p>>
     /\ fx' = f.fx
     /\ UNCHANGED <<history_store, recent_files_enabled, hist_fresh, hist_reinserts>>

\* terminal_search_popover_new for a new window: terminal_search_popover_init
\* runs, history_enabled () included.
TerminalSearchPopoverNew(p, mc, ew, re, wa) ==
  /\ priv[p].finalized
  /\ priv' = [priv EXCEPT ![p] =
                [terminal_search_popover_init(mc, ew, re, wa,
                   history_enabled(history_store, recent_files_enabled).ret)
                 EXCEPT !.unreleased = priv[p].unreleased]]
  /\ history_store' = history_enabled(history_store, recent_files_enabled).store
  /\ ev' = <<"terminal_search_popover_init", p>>
  /\ fx' = <<>>
  /\ UNCHANGED <<recent_files_enabled, hist_fresh, hist_reinserts>>

ParameterButtons == {"match_case_checkbutton", "entire_word_checkbutton", "regex_checkbutton"}
NavigationButtons == {"search_prev_button", "search_next_button"}

Next ==
  \/ \E p \in SpecPopovers, t \in Texts : SearchTextChanged(p, t)
  \/ \E p \in SpecPopovers, b \in ParameterButtons : SearchParametersChanged(p, b)
  \/ \E p \in SpecPopovers : WrapAroundToggled(p)
  \/ \E p \in SpecPopovers, b \in NavigationButtons : SearchButtonClicked(p, b)
  \/ \E p \in SpecPopovers : PreviousMatch(p)
  \/ \E p \in SpecPopovers : NextMatch(p)
  \/ \E b \in BOOLEAN : SetRecentFilesEnabled(b)
  \/ \E p \in SpecPopovers : Finalize(p)
  \/ \E p \in SpecPopovers, mc, ew, re, wa \in BOOLEAN :
       TerminalSearchPopoverNew(p, mc, ew, re, wa)

Spec == Init /\ [][Next]_vars

(* --------------------------- history driver --------------------------- *)

\* One call history_insert_item (text), as perform_search makes it.
HistoryInsert(text, kind) ==
  /\ history_store' = history_insert_item(history_store, recent_files_enabled, text)
  /\ ev' = <<"history_insert_item", kind>>
  /\ fx' = << InsertEffect(text) >>
  /\ UNCHANGED <<priv, recent_files_enabled>>

\* The next string never recorded before; it counts once it was offered
\* with the history enabled.
HistInsertFresh ==
  /\ hist_fresh < MaxFresh
  /\ HistoryInsert(Ptr(Fresh(hist_fresh + 1)), "fresh")
  /\ hist_fresh' = IF recent_files_enabled THEN hist_fresh + 1 ELSE hist_fresh
  /\ UNCHANGED hist_reinserts

\* A string that is in the store, at any row.
HistInsertPresent ==
  /\ hist_reinserts < MaxReinserts
  /\ history_store # NULL
  /\ \E i \in 1..Len(Deref(history_store)) :
       HistoryInsert(Ptr(Deref(history_store)[i]), "present")
  /\ hist_reinserts' = hist_reinserts + 1
  /\ UNCHANGED hist_fresh

\* A string of at most three code points.
HistInsertShort ==
  /\ \E t \in ShortTexts : HistoryInsert(Ptr(t), "short")
  /\ UNCHANGED <<hist_fresh, hist_reinserts>>

\* The NULL pointer.
HistInsertNull ==
  /\ HistoryInsert(NULL, "null")
  /\ UNCHANGED <<hist_fresh, hist_reinserts>>

HistNext ==
  \/ HistInsertFresh
  \/ HistInsertPresent
  \/ HistInsertShort
  \/ HistInsertNull
  \/ \E b \in BOOLEAN : SetRecentFilesEnabled(b)

\* The driver runs beside a popover nobody touches.
HistInit ==
  /\ Init
  /\ \A p \in SpecPopovers :
       priv[p] = terminal_search_popover_init(FALSE, FALSE, FALSE, FALSE,
                                              recent_files_enabled)

SpecHistory == HistInit /\ [][HistNext]_vars

(* --------------------------- several popovers ------------------------- *)

\* Two windows, each with its popover, searching in turn; windows close
\* and open again.  The check buttons stay as the template sets them.
SharedNext ==
  \/ \E p \in PopoverIds, t \in SharedTexts : SearchTextChanged(p, t)
  \/ \E p \in PopoverIds : NextMatch(p)
  \/ \E b \in BOOLEAN : SetRecentFilesEnabled(b)
  \/ \E p \in PopoverIds : Finalize(p)
  \/ \E p \in PopoverIds : TerminalSearchPopoverNew(p, FALSE, FALSE, FALSE, FALSE)

SpecShared == HistInit /\ [][SharedNext]_vars

(* ------------------------------ properties ---------------------------- *)

\* The rows of the history store (none while it is not allocated).
Rows(store) == IF store = NULL THEN <<>> ELSE Deref(store)

\* The callback e ran update_regex on popover p.
RanUpdateRegex(e, p) ==
  /\ e[1] \in {"search_text_changed_cb", "search_parameters_changed_cb"}
  /\ e[2] = p

\* The callback e ran perform_search on popover p.
RanPerformSearch(e, p) ==
  /\ e[1] \in {"search_button_clicked_cb", "previous_match_cb", "next_match_cb"}
  /\ e[2] = p

\* The argument of the history_insert_item call recorded as effect f.
InsertArg(f) == IF f[2] = "NULL" THEN NULL ELSE Ptr(SubSeq(f, 3, Len(f)))

NoDuplicates(rows) == \A i, j \in 1..Len(rows) : rows[i] = rows[j] => i = j

\* C1: whenever a popover holds a compiled pattern, it is the matcher the
\* engine returns for the pattern and flags derived from the current text
\* and the current match-case, entire-word and regex options.
C1_MatcherFollowsOptions ==
  \A p \in PopoverIds :
    priv[p].regex # NULL =>
      LET d == Derive(priv[p])
      IN priv[p].regex = regex_new(d.pattern, d.caseless, d.multiline)

\* C2: an update_regex call that derives the same (pattern, caseless,
\* multiline) triple as the previous update_regex call on the popover
\* has no effect: no engine call, no unref, no notification.
C2_CacheReuse ==
  [][\A p \in PopoverIds :
       (/\ RanUpdateRegex(ev', p)
        /\ priv[p].last_triple # NULL
        /\ priv'[p].last_triple = priv[p].last_triple)
       => fx' = <<>>]_vars

\* C3: once HISTORY_LENGTH or more pairwise distinct recordable strings have
\* been inserted with the history enabled (and nothing re-inserted), the
\* store holds exactly the HISTORY_LENGTH most recent ones, newest first.
C3_CapacityIsTen ==
  (hist_reinserts = 0 /\ hist_fresh >= HISTORY_LENGTH) =>
    history_store = Ptr([i \in 1..HISTORY_LENGTH |-> Fresh(hist_fresh + 1 - i)])

\* The step is a call history_insert_item (text) of the history driver.
IsInsertCall(e) == e[1] = "history_insert_item"

\* C4: the store never holds a string twice, and inserting (with the history
\* enabled) a string that is already in the store, at whatever row, moves it
\* to row 0, keeps the number of rows and drops no other string.
C4_NoDuplicates ==
  [][/\ NoDuplicates(Rows(history_store'))
     /\ (/\ IsInsertCall(ev')
         /\ recent_files_enabled
         /\ InsertArg(fx'[1]) # NULL
         /\ \E i \in 1..Len(Rows(history_store)) :
              Rows(history_store)[i] = Deref(InsertArg(fx'[1])))
        => (/\ Rows(history_store')[1] = Deref(InsertArg(fx'[1]))
            /\ Len(Rows(history_store')) = Len(Rows(history_store))
            /\ {Rows(history_store')[i] : i \in 1..Len(Rows(history_store'))}
                 = {Rows(history_store)[i] : i \in 1..Len(Rows(history_store))})]_vars

\* C4 witness: the oldest of at least three recorded strings has just been
\* inserted again and stands first.
C4_Witness ==
  /\ ev = <<"history_insert_item", "present">>
  /\ recent_files_enabled
  /\ Len(Rows(history_store)) >= 3
  /\ Rows(history_store)[1] = Fresh(1)
  /\ fx = << InsertEffect(Ptr(Fresh(1))) >>

\* C5: while the search text is empty the popover has no compiled pattern,
\* whatever the options are and whatever was compiled or cached before.
C5_EmptyTextNoPattern ==
  \A p \in PopoverIds : priv[p].search_entry = <<>> => priv[p].regex = NULL

\* C5 witness: the text has just been emptied while a matcher existed (it
\* was released), with every option on.
C5_Witness ==
  \E p \in PopoverIds :
    /\ ev = <<"search_text_changed_cb", p>>
    /\ priv[p].search_entry = <<>>
    /\ Len(fx) >= 1 /\ fx[1] = <<"regex_unref">>
    /\ priv[p].entire_word_checkbutton /\ priv[p].match_case_checkbutton

\* C6: when update_regex calls the engine and the engine reports an error,
\* the previous matcher (if any) was released first, and afterwards the
\* popover has no compiled pattern, no cached pattern string, and both
\* navigation buttons are insensitive.
C6_CompileFailureClears ==
  [][\A p \in PopoverIds :
       (/\ RanUpdateRegex(ev', p)
        /\ \E k \in 1..Len(fx') : fx'[k] = <<"regex_new", "error">>)
       => (/\ priv'[p].regex = NULL
           /\ priv'[p].regex_pattern = NULL
           /\ ~priv'[p].search_prev_button
           /\ ~priv'[p].search_next_button
           /\ priv[p].regex # NULL => fx'[1] = <<"regex_unref">>)]_vars

\* C6 witness: a compilation has just failed in a popover that held a
\* matcher before.
C6_Witness ==
  \E p \in PopoverIds :
    /\ RanUpdateRegex(ev, p)
    /\ fx = << <<"regex_unref">>, <<"regex_new", "error">>, <<"notify", "regex">> >>
    /\ priv[p].regex = NULL

\* C7: in every state (after construction and after every callback, the
\* early return of update_regex included) each navigation button is
\* sensitive exactly when the popover holds a compiled pattern.
C7_Sensitivity ==
  \A p \in PopoverIds :
    /\ priv[p].search_prev_button = (priv[p].regex # NULL)
    /\ priv[p].search_next_button = (priv[p].regex # NULL)

\* C7 witness: update_regex has just returned early with a matcher in place.
C7_Witness ==
  \E p \in PopoverIds :
    /\ RanUpdateRegex(ev, p)
    /\ fx = <<>>
    /\ priv[p].regex # NULL
    /\ priv[p].search_prev_button /\ priv[p].search_next_button

\* The search signal perform_search emits for the callback e.
EmitFor(e) ==
  <<"emit", "search",
    IF \/ e[1] = "previous_match_cb"
       \/ (e[1] = "search_button_clicked_cb" /\ e[3] = "search_prev_button")
    THEN "backward" ELSE "forward">>

\* C8: a perform_search with a compiled pattern and the text-changed flag
\* set hands the entry text to history_insert_item and only then emits
\* "search"; with the flag clear it emits "search" and leaves the history
\* alone.  The flag is clear afterwards and only search_text_changed_cb
\* sets it, so searches without a text change in between reach the history
\* at most once.
C8_CommitBeforeSearch ==
  [][\A p \in PopoverIds :
       /\ (RanPerformSearch(ev', p) /\ priv[p].regex # NULL)
          => (/\ ~priv'[p].search_text_changed
              /\ IF priv[p].search_text_changed
                 THEN fx' = << InsertEffect(Ptr(priv[p].search_entry)), EmitFor(ev') >>
                 ELSE fx' = << EmitFor(ev') >> /\ history_store' = history_store)
       /\ (~priv[p].search_text_changed /\ ev'[1] # "search_text_changed_cb")
          => ~priv'[p].search_text_changed]_vars

\* C8 witness: a search has just recorded the entry text and then emitted.
C8_Witness ==
  \E p \in PopoverIds :
    /\ RanPerformSearch(ev, p)
    /\ Len(fx) = 2
    /\ fx[1] = InsertEffect(Ptr(priv[p].search_entry))
    /\ Len(Rows(history_store)) >= 2
    /\ Rows(history_store)[1] = priv[p].search_entry

\* C9: a perform_search without a compiled pattern does nothing: no
\* "search" emission, no effect at all, the history store and the whole
\* private state (the text-changed flag included) stay as they are.
C9_NoPatternNoSearch ==
  [][\A p \in PopoverIds :
       (RanPerformSearch(ev', p) /\ priv[p].regex = NULL)
       => (/\ fx' = <<>>
           /\ history_store' = history_store
           /\ priv'[p] = priv[p])]_vars

\* C9 witness: a match key signal has just arrived with no pattern, a
\* pending text change and the history enabled.
C9_Witness ==
  \E p \in PopoverIds :
    /\ ev = <<"next_match_cb", p>>
    /\ priv[p].regex = NULL
    /\ priv[p].search_text_changed
    /\ priv[p].search_entry # <<>>
    /\ recent_files_enabled

\* C10: history_insert_item leaves the rows as they are for NULL and for
\* every text of at most three code points, puts every text of four or
\* more code points in front when the history is enabled, and no row ever
\* has fewer than four code points.
C10_LengthThreshold ==
  [][/\ \A i \in 1..Len(Rows(history_store')) : Len(Rows(history_store')[i]) >= 4
     /\ IsInsertCall(ev') =>
          LET text == InsertArg(fx'[1])
          IN IF text = NULL \/ Len(Deref(text)) <= 3
             THEN Rows(history_store') = Rows(history_store)
             ELSE recent_files_enabled => Rows(history_store')[1] = Deref(text)]_vars

\* C10 witness: a text of three code points and four bytes has just been
\* offered to a non-empty, enabled history.
C10_Witness ==
  /\ ev = <<"history_insert_item", "short">>
  /\ fx = << InsertEffect(Ptr(<<"a", EACUTE, "b">>)) >>
  /\ recent_files_enabled
  /\ Len(Rows(history_store)) >= 1

\* The callback with effects f called history_insert_item first.
CallsInsert(f) == Len(f) >= 1 /\ f[1][1] = "history_insert_item"

\* C11: while the "history enabled" setting is off, a history_insert_item
\* call changes nothing: no row added, removed or moved, and no store
\* allocated.  The store is allocated only in a step that calls
\* history_enabled (popover construction, history_insert_item) and finds
\* the setting on.
C11_DisabledNoEffect ==
  [][/\ (CallsInsert(fx') /\ ~recent_files_enabled) => history_store' = history_store
     /\ (history_store = NULL /\ history_store' # NULL)
        => (/\ recent_files_enabled
            /\ \/ CallsInsert(fx')
               \/ ev'[1] = "terminal_search_popover_init")]_vars

\* C11 witness: a search has just offered a recordable text while the
\* setting was off and no store existed; there is still none.
C11_Witness ==
  \E p \in PopoverIds :
    /\ RanPerformSearch(ev, p)
    /\ CallsInsert(fx)
    /\ Len(priv[p].search_entry) >= 4
    /\ fx[1] = InsertEffect(Ptr(priv[p].search_entry))
    /\ ~recent_files_enabled
    /\ history_store = NULL

\* C12: the history store never holds more than HISTORY_LENGTH rows.
C12_CapacityBound == Len(Rows(history_store)) <= HISTORY_LENGTH

\* C12 witness: more distinct recordable strings than HISTORY_LENGTH have
\* been inserted, the last one just now.
C12_Witness ==
  /\ ev = <<"history_insert_item", "fresh">>
  /\ recent_files_enabled
  /\ hist_fresh > HISTORY_LENGTH
  /\ Rows(history_store)[1] = Fresh(hist_fresh)

\* C13: an update_regex call that unrefs the popover's matcher or leaves
\* another value in priv->regex (none to some, some to none, some to
\* another) ends with the "regex" property notification, after the unref
\* and the engine call; and once a matcher is unref'd, priv->regex is NULL or
\* the matcher the engine returned in the same call.
C13_NotifyOnChange ==
  [][\A p \in PopoverIds :
       (/\ RanUpdateRegex(ev', p)
        /\ \/ priv'[p].regex # priv[p].regex
           \/ Count(fx', <<"regex_unref">>) > 0)
       => (/\ fx'[Len(fx')] = <<"notify", "regex">>
           /\ Count(fx', <<"notify", "regex">>) = 1
           /\ \/ priv'[p].regex = NULL
              \/ Count(fx', <<"regex_new", "ok">>) = 1)]_vars

\* C13 witness: one matcher has just replaced another.
C13_Witness ==
  \E p \in PopoverIds :
    /\ RanUpdateRegex(ev, p)
    /\ fx = << <<"regex_unref">>, <<"regex_new", "ok">>, <<"notify", "regex">> >>
    /\ priv[p].regex # NULL

\* C14: a perform_search with a compiled pattern emits "search" exactly
\* once, backward for the previous button and the previous-match signal,
\* forward for the next button and the next-match signal, and leaves the
\* compiled pattern and the cached pattern and flags as they are.
C14_OneDirectedSearch ==
  [][\A p \in PopoverIds :
       (RanPerformSearch(ev', p) /\ priv[p].regex # NULL)
       => (/\ Count(fx', <<"emit", "search", "backward">>)
                + Count(fx', <<"emit", "search", "forward">>) = 1
           /\ fx'[Len(fx')] = EmitFor(ev')
           /\ priv'[p].regex = priv[p].regex
           /\ priv'[p].regex_pattern = priv[p].regex_pattern
           /\ priv'[p].regex_caseless = priv[p].regex_caseless
           /\ priv'[p].regex_multiline = priv[p].regex_multiline)]_vars

\* C14 witness: the previous button has just been clicked and a backward
\* search emitted.
C14_Witness ==
  \E p \in PopoverIds :
    /\ ev = <<"search_button_clicked_cb", p, "search_prev_button">>
    /\ fx = << <<"emit", "search", "backward">> >>
    /\ priv[p].regex # NULL

\* The texts of Spec with their regex metacharacters escaped, written out.
EscapedLiteral(text) ==
  CASE text = <<>>                    -> <<>>
    [] text = <<"a", "+">>            -> <<"a", BS, "+">>
    [] text = <<"(">>                 -> <<BS, "(">>
    [] text = <<BS, "b", BS, "b">>    -> <<BS, BS, "b", BS, BS, "b">>
    [] text = <<"a", "b", "c", "d">>  -> <<"a", "b", "c", "d">>
    [] text = <<"a", EACUTE, "b">>    -> <<"a", EACUTE, "b">>

\* The triple the popover's widgets stand for.
EffectiveTriple(pv) ==
  LET base == IF pv.regex_checkbutton THEN pv.search_entry
              ELSE EscapedLiteral(pv.search_entry)
  IN [pattern   |-> IF pv.entire_word_checkbutton
                    THEN <<BS, "b">> \o base \o <<BS, "b">> ELSE base,
      caseless  |-> ~pv.match_case_checkbutton,
      multiline |-> pv.regex_checkbutton]

\* C15: every update_regex call derives caseless = not match-case,
\* multiline = regex mode, and as pattern the text verbatim in regex mode,
\* the text with its metacharacters escaped otherwise, wrapped in \b...\b
\* exactly when entire-word is on; a matcher the engine returns in the call
\* was compiled from that pattern and those flags.
C15_EffectiveTriple ==
  [][\A p \in PopoverIds :
       RanUpdateRegex(ev', p)
       => (/\ priv'[p].last_triple = Ptr(EffectiveTriple(priv'[p]))
           /\ Count(fx', <<"regex_new", "ok">>) = 1
              => priv'[p].regex = Ptr(EffectiveTriple(priv'[p])))]_vars

\* C15 witness: the literal text "a+" has just been compiled with
\* entire-word on and match-case off, as \ba\+\b, caseless, not multiline.
C15_Witness ==
  \E p \in PopoverIds :
    /\ RanUpdateRegex(ev, p)
    /\ Count(fx, <<"regex_new", "ok">>) = 1
    /\ priv[p].search_entry = <<"a", "+">>
    /\ priv[p].regex = Ptr([pattern |-> <<BS, "b", "a", BS, "+", BS, "b">>,
                            caseless |-> TRUE, multiline |-> FALSE])

\* The strings in the rows.
RowSet(rows) == {rows[i] : i \in 1..Len(rows)}

\* C16: the popovers share one history store.  Once allocated it is never
\* dropped or emptied: whatever a step of any popover does (search, text
\* change, destruction, construction), every row but the last stays in the
\* store, so a string one popover recorded is there for the others; the
\* rows never repeat and never exceed HISTORY_LENGTH; a search of one
\* popover that records its text puts it first and leaves the other
\* popovers, their text-changed flags included, as they are.
C16_SharedStore ==
  [][/\ history_store # NULL => history_store' # NULL
     /\ \A i \in 1..Len(Rows(history_store)) :
          i < HISTORY_LENGTH - 1 => Rows(history_store)[i] \in RowSet(Rows(history_store'))
     /\ NoDuplicates(Rows(history_store'))
     /\ Len(Rows(history_store')) <= HISTORY_LENGTH
     /\ \A p \in PopoverIds :
          RanPerformSearch(ev', p)
          => (/\ \A q \in PopoverIds \ {p} : priv'[q] = priv[q]
              /\ (/\ priv[p].regex # NULL
                  /\ priv[p].search_text_changed
                  /\ recent_files_enabled
                  /\ Len(priv[p].search_entry) >= 4)
                 => Rows(history_store')[1] = priv[p].search_entry)]_vars

\* C16 witness: the second popover has just recorded its text on top of
\* the text the first popover recorded, while the first one still has a
\* text change pending.
C16_Witness ==
  /\ ev = <<"next_match_cb", "p2">>
  /\ CallsInsert(fx)
  /\ Len(Rows(history_store)) >= 2
  /\ Rows(history_store)[1] = priv["p2"].search_entry
  /\ Rows(history_store)[2] = priv["p1"].search_entry
  /\ ~priv["p1"].finalized
  /\ priv["p1"].search_text_changed
  /\ ~priv["p2"].search_text_changed

\* perform_search is about to offer a text the history will not take.
Rejected(pv) == ~recent_files_enabled \/ Len(pv.search_entry) <= 3

\* C17 as stated: a perform_search with a pattern and the text-changed flag
\* set, whose history insertion is rejected (setting off, or at most three
\* code points), leaves the flag set.
C17_FlagKeptOnRejection ==
  [][\A p \in PopoverIds :
       (/\ RanPerformSearch(ev', p)
        /\ priv[p].regex # NULL
        /\ priv[p].search_text_changed
        /\ Rejected(priv[p]))
       => priv'[p].search_text_changed]_vars

\* C17 amended: a perform_search with a pattern and the flag set calls
\* history_insert_item and clears the flag whether the text is taken or
\* rejected; a rejected text leaves the rows as they are, and a
\* perform_search with the flag clear does not call history_insert_item.
C17_FlagClearedBySearch ==
  [][\A p \in PopoverIds :
       (RanPerformSearch(ev', p) /\ priv[p].regex # NULL)
       => IF priv[p].search_text_changed
          THEN /\ CallsInsert(fx')
               /\ ~priv'[p].search_text_changed
               /\ Rejected(priv[p]) => Rows(history_store') = Rows(history_store)
          ELSE ~CallsInsert(fx')]_vars

\* C17 witness: a search has just offered a recordable text with the
\* setting off; the flag is clear and the text is not in the store.
C17_Witness ==
  \E p \in PopoverIds :
    /\ RanPerformSearch(ev, p)
    /\ CallsInsert(fx)
    /\ Len(priv[p].search_entry) >= 4
    /\ ~recent_files_enabled
    /\ ~priv[p].search_text_changed
    /\ history_store # NULL
    /\ priv[p].search_entry \notin RowSet(Rows(history_store))

\* C18: an update_regex call that finds a non-empty text whose effective
\* pattern the engine accepts ends with a compiled pattern whose pattern
\* string is the effective one and both navigation buttons sensitive,
\* whatever happened before.
C18_Recovery ==
  [][\A p \in PopoverIds :
       (/\ RanUpdateRegex(ev', p)
        /\ priv'[p].search_entry # <<>>
        /\ RegexValidFrom(EffectiveTriple(priv'[p]).pattern, "none"))
       => (/\ priv'[p].regex # NULL
           /\ priv'[p].regex_pattern = Ptr(EffectiveTriple(priv'[p]).pattern)
           /\ priv'[p].search_prev_button
           /\ priv'[p].search_next_button)]_vars

\* C18 witness: the text "(" failed to compile in regex mode; regex mode
\* has just been switched off and the literal compiled, with nothing to
\* unref.
C18_Witness ==
  \E p \in PopoverIds :
    /\ ev = <<"search_parameters_changed_cb", p, "regex_checkbutton">>
    /\ priv[p].search_entry = <<"(">>
    /\ fx = << <<"regex_new", "ok">>, <<"notify", "regex">> >>
    /\ priv[p].regex # NULL
    /\ priv[p].search_next_button

\* C19: a popover holds exactly one matcher it has not unref'd when
\* priv->regex is set and none otherwise (so the current matcher is never
\* an unref'd one, none is unref'd twice and none is left behind), no
\* callback unrefs more than once, and a destroyed popover holds none.
C19_MatcherOwnership ==
  /\ Count(fx, <<"regex_unref">>) <= 1
  /\ \A p \in PopoverIds :
       priv[p].unreleased =
         IF ~priv[p].finalized /\ priv[p].regex # NULL THEN 1 ELSE 0

\* C19 witness: a popover holding a matcher has just been destroyed.
C19_Witness ==
  \E p \in PopoverIds :
    /\ ev = <<"terminal_search_popover_finalize", p>>
    /\ fx = << <<"regex_unref">> >>
    /\ priv[p].finalized
    /\ priv[p].unreleased = 0

\* The rows without the string text, in order.
Without(rows, text) == SelectSeq(rows, LAMBDA x : x # text)

\* C20: an insert the history takes (setting on, four or more code points)
\* puts the text first; the rows after it are the former rows without that
\* text, in their former order, cut at the end if at all: only the previous
\* occurrence of the text and rows from the tail go.
C20_OrderPreserving ==
  [][(/\ IsInsertCall(ev')
      /\ recent_files_enabled
      /\ InsertArg(fx'[1]) # NULL
      /\ Len(Deref(InsertArg(fx'[1]))) >= 4)
     => LET text == Deref(InsertArg(fx'[1]))
            old == Without(Rows(history_store), text)
            new == Rows(history_store')
        IN /\ new[1] = text
           /\ Len(new) - 1 <= Len(old)
           /\ Tail(new) = SubSeq(old, 1, Len(new) - 1)]_vars

\* C20 witness: a new string has just been inserted into a full store whose
\* rows had been reordered by a re-insertion; the oldest row went.
C20_Witness ==
  /\ ev = <<"history_insert_item", "fresh">>
  /\ recent_files_enabled
  /\ hist_reinserts >= 1
  /\ hist_fresh >= HISTORY_LENGTH
  /\ Rows(history_store)[1] = Fresh(hist_fresh)
  /\ \E i \in 2..Len(Rows(history_store)) - 1 :
       Rows(history_store)[i] = Fresh(1)

\* C21 as stated: the completion looks up only texts of at least four code
\* points, the length a text needs to be inserted into the history.
C21_CompletionKeyIsInsertLength ==
  \A p \in PopoverIds :
    (~priv[p].finalized /\ priv[p].completion # NULL)
    => (CompletionTriggers(priv[p]) <=> ~TooShort(priv[p].search_entry))

\* C21 amended: the completion, which only a popover created with the
\* history enabled has (so the store exists), has minimum key length
\* HISTORY_MIN_ITEM_LEN = 3: it looks up texts of three or more code points,
\* one fewer than the four a text needs to be inserted.
C21_CompletionKeyIsThree ==
  \A p \in PopoverIds :
    (~priv[p].finalized /\ priv[p].completion # NULL)
    => /\ history_store # NULL
       /\ Deref(priv[p].completion).minimum_key_length = 3
       /\ CompletionTriggers(priv[p]) <=> Len(priv[p].search_entry) >= 3
       /\ ~TooShort(priv[p].search_entry) => CompletionTriggers(priv[p])

\* C21 witness: a text of three code points is looked up by the completion
\* and has just been refused by the enabled history.
C21_Witness ==
  \E p \in PopoverIds :
    /\ RanPerformSearch(ev, p)
    /\ CallsInsert(fx)
    /\ recent_files_enabled
    /\ Len(priv[p].search_entry) = 3
    /\ CompletionTriggers(priv[p])
    /\ priv[p].search_entry \notin RowSet(Rows(history_store))

\* The callback e is an option toggle of popover p.
IsToggle(e, p) ==
  /\ Len(e) >= 2
  /\ e[1] \in {"search_parameters_changed_cb", "wrap_around_toggled_cb"}
  /\ e[2] = p

\* C22: toggling match-case, entire-word, regex or wrap-around changes
\* neither search_text_changed nor the history store; the flag becomes set
\* only in search_text_changed_cb, which sets it at every call, a call
\* where update_regex returned early included; and a search with the flag
\* clear neither calls history_insert_item nor changes the store.
C22_TogglesKeepDirtyFlag ==
  [][\A p \in PopoverIds :
       /\ IsToggle(ev', p)
          => /\ priv'[p].search_text_changed = priv[p].search_text_changed
             /\ history_store' = history_store
       /\ (priv'[p].search_text_changed /\ ~priv[p].search_text_changed)
          => ev' = <<"search_text_changed_cb", p>>
       /\ ev' = <<"search_text_changed_cb", p>> => priv'[p].search_text_changed
       /\ (RanPerformSearch(ev', p) /\ ~priv[p].search_text_changed)
          => /\ ~CallsInsert(fx')
             /\ history_store' = history_store]_vars

\* C22 witness: the text is in the history after a search, the flag is
\* clear, and an option toggle has just recompiled the pattern.
C22_Witness ==
  \E p \in PopoverIds :
    /\ ev[1] = "search_parameters_changed_cb"
    /\ ev[2] = p
    /\ fx # <<>>
    /\ priv[p].regex # NULL
    /\ ~priv[p].search_text_changed
    /\ priv[p].search_entry \in RowSet(Rows(history_store))

\* C23: update_regex notifies "regex" only when the matcher exposed has
\* changed: a call with no matcher before and none after (text still empty,
\* or a pattern the engine refuses again) notifies nothing, and, when it
\* derives the triple of the previous call, does not call the engine again.
C23_NoSpuriousNotify ==
  [][\A p \in PopoverIds :
       (/\ RanUpdateRegex(ev', p)
        /\ priv[p].regex = NULL
        /\ priv'[p].regex = NULL)
       => /\ Count(fx', <<"notify", "regex">>) = 0
          /\ (/\ priv[p].last_triple # NULL
              /\ priv'[p].last_triple = priv[p].last_triple)
             => Count(fx', <<"regex_new", "error">>) = 0]_vars

====
